---- MODULE Spec2Model ----
(***************************************************************************)
(* The SportsWorldCentral fantasy-football API (src/chapter5/main.py) over *)
(* the SQLite store configured in src/chapter4/database.py.                *)
(*                                                                         *)
(* A request is routed to an endpoint, the get_db dependency opens a       *)
(* session, the query parameters are coerced to their declared types, the  *)
(* handler calls the data-access layer (module crud, which is not among    *)
(* the source files and is modelled from the specification), and the       *)
(* finally-clause of get_db closes the session.                            *)
(***************************************************************************)
EXTENDS Integers, Sequences, FiniteSets, TLC

VARIABLES store, req, sessions

vars == <<store, req, sessions>>

(***************************************************************************)
(* Bounds of the model.                                                    *)
(***************************************************************************)
NReq == 2       \* requests the host runtime serves at the same time
MaxRows == 2    \* players, and leagues, in the store
MaxDate == 2    \* last-changed dates are 1..MaxDate
MaxSkip == 2    \* largest skip a client sends
MaxLimit == 2   \* largest explicit limit a client sends

(***************************************************************************)
(* Program constants.                                                      *)
(***************************************************************************)
DefaultSkip == 0
DefaultLimit == 100

Requests == 1..NReq
SessionIds == 1..NReq
Dates == 1..MaxDate
Parity == {"odd", "even"}

Min(a, b) == IF a < b THEN a ELSE b

(***************************************************************************)
(* The store: four tables, each a sequence of rows in identifier order.    *)
(* Every performance references an existing player and every team an       *)
(* existing league.                                                        *)
(***************************************************************************)
NameA(k) == IF k % 2 = 1 THEN "a" ELSE "b"
NameB(k) == IF k <= 2 THEN "a" ELSE "b"
DateOf(ds, k) == IF k % 2 = 1 THEN ds["odd"] ELSE ds["even"]
RefOf(j) == IF j = 1 THEN 1 ELSE j - 1

PlayerRows(n, ds) ==
    [k \in 1..n |-> [player_id |-> k, first_name |-> NameA(k),
                     last_name |-> NameB(k), last_changed_date |-> DateOf(ds, k)]]

PerformanceRows(n, ds) ==
    [j \in 1..(IF n = 0 THEN 0 ELSE n + 1) |->
        [performance_id |-> j, player_id |-> RefOf(j),
         last_changed_date |-> DateOf(ds, j + 1)]]

LeagueRows(n, ds) ==
    [k \in 1..n |-> [league_id |-> k, league_name |-> NameA(k),
                     last_changed_date |-> DateOf(ds, k + 1)]]

TeamRows(n, ds) ==
    [j \in 1..(IF n = 0 THEN 0 ELSE n + 1) |->
        [team_id |-> j, team_name |-> NameB(j), league_id |-> RefOf(j),
         last_changed_date |-> DateOf(ds, j)]]

StoreOf(np, nl, ds) ==
    [players |-> PlayerRows(np, ds), performances |-> PerformanceRows(np, ds),
     leagues |-> LeagueRows(nl, ds), teams |-> TeamRows(nl, ds)]

\* A store whose players table is one row longer than the default limit.
BigStore == StoreOf(DefaultLimit + 1, 1, [p \in Parity |-> IF p = "odd" THEN 1 ELSE MaxDate])

(***************************************************************************)
(* Query parameters as they arrive: absent, a literal of the declared      *)
(* type, or text that the declared type cannot be coerced from.            *)
(***************************************************************************)
Absent == [given |-> FALSE, ok |-> TRUE, val |-> 0]
Malformed == [given |-> TRUE, ok |-> FALSE, val |-> 0]
Given(v) == [given |-> TRUE, ok |-> TRUE, val |-> v]
NoStr == [given |-> FALSE, val |-> ""]
Str(s) == [given |-> TRUE, val |-> s]

RawInts(lo, hi) == {Absent, Malformed} \cup {Given(v) : v \in lo..hi}
RawNames == {NoStr, Str("a")}

BaseQuery ==
    [skip |-> Absent, limit |-> Absent, minimum_last_changed_date |-> Absent,
     first_name |-> NoStr, last_name |-> NoStr, league_name |-> NoStr,
     team_name |-> NoStr, league_id |-> Absent, player_id |-> Absent,
     path_id |-> Absent]

PagedQueries ==
    {[BaseQuery EXCEPT !.skip = s, !.limit = l, !.minimum_last_changed_date = d] :
        s \in RawInts(-1, MaxSkip) \cup {Given(DefaultLimit)},
        l \in RawInts(-1, MaxLimit),
        d \in RawInts(1, MaxDate)}

ListingEndpoints == {"players", "performances", "leagues", "teams"}
LookupEndpoints == {"player", "league"}
Endpoints == {"root", "counts"} \cup ListingEndpoints \cup LookupEndpoints

\* Every request a client can send to an endpoint, within the bounds.
Queries(ep) ==
    CASE ep = "players" ->
           {[p EXCEPT !.first_name = f, !.last_name = g] :
                p \in PagedQueries, f \in RawNames, g \in RawNames}
      [] ep = "performances" ->
           {[p EXCEPT !.player_id = i] :
                p \in PagedQueries, i \in {Absent, Given(1), Given(2)}}
      [] ep = "leagues" ->
           {[p EXCEPT !.league_name = f] : p \in PagedQueries, f \in RawNames}
      [] ep = "teams" ->
           {[p EXCEPT !.team_name = f, !.league_id = i] :
                p \in PagedQueries, f \in RawNames,
                i \in {Absent, Malformed, Given(1)}}
      [] ep \in LookupEndpoints ->
           {[BaseQuery EXCEPT !.path_id = i] :
                i \in {Malformed} \cup {Given(v) : v \in 0..(MaxRows + 1)}}
      [] OTHER -> {BaseQuery}

\* The requests of the concurrent specifications: one of each outcome.
FewQueries(ep) ==
    CASE ep \in ListingEndpoints ->
           {BaseQuery, [BaseQuery EXCEPT !.skip = Malformed]}
      [] ep \in LookupEndpoints ->
           {[BaseQuery EXCEPT !.path_id = i] : i \in {Malformed, Given(0), Given(1)}}
      [] OTHER -> {BaseQuery}

(***************************************************************************)
(* Parameter binding: the declared types and defaults of the handlers'     *)
(* signatures.  Parameters a handler does not declare are ignored.         *)
(***************************************************************************)
Declared(ep) ==
    CASE ep = "players" -> {"skip", "limit", "minimum_last_changed_date"}
      [] ep = "performances" -> {"skip", "limit", "minimum_last_changed_date"}
      [] ep = "leagues" -> {"skip", "limit", "minimum_last_changed_date"}
      [] ep = "teams" -> {"skip", "limit", "minimum_last_changed_date", "league_id"}
      [] ep \in LookupEndpoints -> {"path_id"}
      [] OTHER -> {}

Valid(ep, q) == \A f \in Declared(ep) : q[f].ok

None == <<>>
IntOr(raw, default) == IF raw.given THEN raw.val ELSE default
Opt(raw) == IF raw.given THEN <<raw.val>> ELSE None

OptStr(raw) == IF raw.given THEN <<raw.val>> ELSE None

(***************************************************************************)
(* The data-access layer (module crud).  A listing filters its table by    *)
(* the conjunction of the filters given, then applies OFFSET skip and     *)
(* LIMIT limit; SQLite reads a negative OFFSET as 0 and a negative LIMIT   *)
(* as no limit.  A lookup returns the row with the identifier, or None.    *)
(***************************************************************************)
Window(rows, skip, limit) ==
    LET off == IF skip < 0 THEN 0 ELSE skip
        hi == IF limit < 0 THEN Len(rows) ELSE Min(Len(rows), off + limit)
    IN  SubSeq(rows, off + 1, hi)

DateOk(row, min_last_changed_date) ==
    \/ min_last_changed_date = None
    \/ row.last_changed_date >= min_last_changed_date[1]

FieldOk(value, wanted) == wanted = None \/ value = wanted[1]

get_players(db, skip, limit, min_last_changed_date, first_name, last_name) ==
    Window(SelectSeq(db.players,
                     LAMBDA p : /\ DateOk(p, min_last_changed_date)
                                /\ FieldOk(p.first_name, first_name)
                                /\ FieldOk(p.last_name, last_name)),
           skip, limit)

get_performance(db, skip, limit, min_last_changed_date) ==
    Window(SelectSeq(db.performances, LAMBDA p : DateOk(p, min_last_changed_date)),
           skip, limit)

get_leagues(db, skip, limit, min_last_changed_date, league_name) ==
    Window(SelectSeq(db.leagues,
                     LAMBDA l : /\ DateOk(l, min_last_changed_date)
                                /\ FieldOk(l.league_name, league_name)),
           skip, limit)

get_teams(db, skip, limit, min_last_changed_date, team_name, league_id) ==
    Window(SelectSeq(db.teams,
                     LAMBDA t : /\ DateOk(t, min_last_changed_date)
                                /\ FieldOk(t.team_name, team_name)
                                /\ FieldOk(t.league_id, league_id)),
           skip, limit)

First(rows) == IF Len(rows) = 0 THEN None ELSE <<rows[1]>>

get_player(db, player_id) ==
    First(SelectSeq(db.players, LAMBDA p : p.player_id = player_id))

get_league(db, league_id) ==
    First(SelectSeq(db.leagues, LAMBDA l : l.league_id = league_id))

get_player_count(db) == Len(db.players)
get_team_count(db) == Len(db.teams)
get_league_count(db) == Len(db.leagues)

(***************************************************************************)
(* Responses.  body is a sequence: the rows of a listing, the one entity   *)
(* of a lookup, the one record of the counts, the one health message.      *)
(* crud_call records the pagination arguments the handler handed to the    *)
(* data-access layer.                                                      *)
(***************************************************************************)
Call(fn, skip, limit) == [fn |-> fn, skip |-> skip, limit |-> limit]
NoCall == Call("none", 0, 0)

Ok(kind, body, call) ==
    [status |-> 200, kind |-> kind, body |-> body, detail |-> "", crud_call |-> call]

HTTPException(status_code, detail, call) ==
    [status |-> status_code, kind |-> "detail", body |-> <<>>, detail |-> detail,
     crud_call |-> call]

RequestValidationError ==
    [status |-> 422, kind |-> "detail", body |-> <<>>,
     detail |-> "value is not a valid parameter", crud_call |-> NoCall]

NoResp == [status |-> 0, kind |-> "none", body |-> <<>>, detail |-> "", crud_call |-> NoCall]

(***************************************************************************)
(* The handlers of main.py, as functions of the store the session reads    *)
(* and of the bound parameters.                                            *)
(***************************************************************************)
root == Ok("message", <<"API health check successful">>, NoCall)

\* read_players with skip and limit handed over in each other's place.
read_players_swapped(db, skip, limit, minimum_last_changed_date, first_name, last_name) ==
    LET players == get_players(db, limit, skip, minimum_last_changed_date,
                               first_name, last_name)
    IN  Ok("list", players, Call("get_players", limit, skip))

read_players(db, skip, limit, minimum_last_changed_date, first_name, last_name) ==
    LET players == get_players(db, skip, limit, minimum_last_changed_date,
                               first_name, last_name)
    IN  Ok("list", players, Call("get_players", skip, limit))

read_player(db, player_id) ==
    LET player == get_player(db, player_id)
    IN  IF player = None
        THEN HTTPException(404, "Player not found", Call("get_player", 0, 0))
        ELSE Ok("entity", player, Call("get_player", 0, 0))

read_performances(db, skip, limit, minimum_last_changed_date) ==
    LET performances == get_performance(db, skip, limit, minimum_last_changed_date)
    IN  Ok("list", performances, Call("get_performance", skip, limit))

\* read_league without the test for None.
read_league_unchecked(db, league_id) ==
    LET league == get_league(db, league_id)
    IN  Ok("entity", league, Call("get_league", 0, 0))

read_league(db, league_id) ==
    LET league == get_league(db, league_id)
    IN  IF league = None
        THEN HTTPException(404, "League not found", Call("get_league", 0, 0))
        ELSE Ok("entity", league, Call("get_league", 0, 0))

\* read_leagues that does not hand the date on.
read_leagues_undated(db, skip, limit, minimum_last_changed_date, league_name) ==
    LET leagues == get_leagues(db, skip, limit, None, league_name)
    IN  Ok("list", leagues, Call("get_leagues", skip, limit))

read_leagues(db, skip, limit, minimum_last_changed_date, league_name) ==
    LET leagues == get_leagues(db, skip, limit, minimum_last_changed_date, league_name)
    IN  Ok("list", leagues, Call("get_leagues", skip, limit))

\* read_teams that raises not-found on an empty result, as the lookups do.
read_teams_or_404(db, skip, limit, minimum_last_changed_date, team_name, league_id) ==
    LET teams == get_teams(db, skip, limit, minimum_last_changed_date,
                           team_name, league_id)
    IN  IF teams = <<>>
        THEN HTTPException(404, "Teams not found", Call("get_teams", skip, limit))
        ELSE Ok("list", teams, Call("get_teams", skip, limit))

read_teams(db, skip, limit, minimum_last_changed_date, team_name, league_id) ==
    LET teams == get_teams(db, skip, limit, minimum_last_changed_date,
                           team_name, league_id)
    IN  Ok("list", teams, Call("get_teams", skip, limit))

\* get_count that counts the players of a default listing.
get_count_of_listing(db) ==
    LET counts == [league_count |-> get_league_count(db),
                   team_count |-> get_team_count(db),
                   player_count |->
                       Len(get_players(db, DefaultSkip, DefaultLimit, None, None, None))]
    IN  Ok("counts", <<counts>>, Call("get_counts", 0, 0))

get_count(db) ==
    LET counts == [league_count |-> get_league_count(db),
                   team_count |-> get_team_count(db),
                   player_count |-> get_player_count(db)]
    IN  Ok("counts", <<counts>>, Call("get_counts", 0, 0))

(***************************************************************************)
(* The routes: each binds the request's parameters (declared defaults      *)
(* for the absent ones) and calls its handler.                             *)
(***************************************************************************)
v0_get_players(db, q) ==
    read_players(db, IntOr(q.skip, DefaultSkip), IntOr(q.limit, DefaultLimit),
                 Opt(q.minimum_last_changed_date),
                 OptStr(q.first_name), OptStr(q.last_name))

v0_get_players_by_player_id(db, q) == read_player(db, q.path_id.val)

v0_get_performances(db, q) ==
    read_performances(db, IntOr(q.skip, DefaultSkip), IntOr(q.limit, DefaultLimit),
                      Opt(q.minimum_last_changed_date))

v0_get_league_by_league_id(db, q) == read_league(db, q.path_id.val)

v0_get_leagues(db, q) ==
    read_leagues(db, IntOr(q.skip, DefaultSkip), IntOr(q.limit, DefaultLimit),
                 Opt(q.minimum_last_changed_date), OptStr(q.league_name))

v0_get_teams(db, q) ==
    read_teams(db, IntOr(q.skip, DefaultSkip), IntOr(q.limit, DefaultLimit),
               Opt(q.minimum_last_changed_date),
               OptStr(q.team_name), Opt(q.league_id))

v0_get_counts(db, q) == get_count(db)

(***************************************************************************)
(* State.  req[r] is request slot r: where the request stands (pc), its    *)
(* endpoint, the session get_db gave it (0: none), the request and the     *)
(* response while the handler's result is in hand, and whether the session *)
(* was open when the handler read through it.  sessions[s] is "free" (no   *)
(* such object), "open" or "closed".                                       *)
(***************************************************************************)
IdleReq ==
    [pc |-> "idle", ep |-> "none", sid |-> 0, q |-> BaseQuery, resp |-> NoResp,
     read_open |-> TRUE]

\* One session object made once and handed to every caller.
SessionLocal_singleton(caller) == 1

\* sessionmaker: every call makes a session object of its own, named here
\* after the invocation that called.
SessionLocal(caller) == caller

Arrive(r, ep) ==
    /\ req[r].pc = "idle"
    /\ req' = [req EXCEPT ![r].pc = "routed", ![r].ep = ep]
    /\ UNCHANGED <<store, sessions>>

\* get_db up to its yield.
Acquire(r) ==
    /\ req[r].pc = "routed"
    /\ req[r].ep # "root"
    /\ LET db == SessionLocal(r)
       IN  /\ sessions' = [sessions EXCEPT ![db] = "open"]
           /\ req' = [req EXCEPT ![r].pc = "acquired", ![r].sid = db]
    /\ UNCHANGED store

Respond(r, q, resp) ==
    /\ req' = [req EXCEPT ![r].pc = "responded", ![r].q = q, ![r].resp = resp,
                          ![r].read_open = (sessions[req[r].sid] = "open")]
    /\ UNCHANGED <<store, sessions>>

Root(r) ==
    /\ req[r].pc = "routed"
    /\ req[r].ep = "root"
    /\ req' = [req EXCEPT ![r].pc = "responded", ![r].resp = root]
    /\ UNCHANGED <<store, sessions>>

\* A declared parameter cannot be coerced: the handler is not called.
ValidationError(r, qs) ==
    /\ req[r].pc = "acquired"
    /\ \E q \in qs :
          /\ ~Valid(req[r].ep, q)
          /\ req' = [req EXCEPT ![r].pc = "responded", ![r].q = q,
                                ![r].resp = RequestValidationError]
    /\ UNCHANGED <<store, sessions>>

Ready(r, ep) == req[r].pc = "acquired" /\ req[r].ep = ep

ReadPlayers(r, qs) ==
    /\ Ready(r, "players")
    /\ \E q \in qs : Valid("players", q) /\ Respond(r, q, v0_get_players(store, q))

\* A lookup that creates the player it did not find.
ReadPlayer_get_or_create(r, qs) ==
    /\ Ready(r, "player")
    /\ \E q \in qs :
          /\ Valid("player", q)
          /\ LET found == v0_get_players_by_player_id(store, q)
                 made == [player_id |-> q.path_id.val, first_name |-> "",
                          last_name |-> "", last_changed_date |-> 1]
             IN  IF found.status = 404
                 THEN /\ store' = [store EXCEPT !.players = Append(@, made)]
                      /\ req' = [req EXCEPT ![r].pc = "responded", ![r].q = q,
                                            ![r].resp = Ok("entity", <<made>>,
                                                           found.crud_call)]
                 ELSE /\ store' = store
                      /\ req' = [req EXCEPT ![r].pc = "responded", ![r].q = q,
                                            ![r].resp = found]
    /\ UNCHANGED sessions

ReadPlayer(r, qs) ==
    /\ Ready(r, "player")
    /\ \E q \in qs :
          Valid("player", q) /\ Respond(r, q, v0_get_players_by_player_id(store, q))

ReadPerformances(r, qs) ==
    /\ Ready(r, "performances")
    /\ \E q \in qs :
          Valid("performances", q) /\ Respond(r, q, v0_get_performances(store, q))

ReadLeague(r, qs) ==
    /\ Ready(r, "league")
    /\ \E q \in qs :
          Valid("league", q) /\ Respond(r, q, v0_get_league_by_league_id(store, q))

ReadLeagues(r, qs) ==
    /\ Ready(r, "leagues")
    /\ \E q \in qs : Valid("leagues", q) /\ Respond(r, q, v0_get_leagues(store, q))

ReadTeams(r, qs) ==
    /\ Ready(r, "teams")
    /\ \E q \in qs : Valid("teams", q) /\ Respond(r, q, v0_get_teams(store, q))

GetCount(r, qs) ==
    /\ Ready(r, "counts")
    /\ \E q \in qs : Valid("counts", q) /\ Respond(r, q, v0_get_counts(store, q))

\* get_db without try/finally: an exception raised into the yield skips close.
Release_unless_raised(r) ==
    /\ req[r].pc = "responded"
    /\ req[r].sid # 0
    /\ sessions' = [sessions EXCEPT ![req[r].sid] =
                        IF req[r].resp.status = 200 THEN "closed" ELSE @]
    /\ req' = [req EXCEPT ![r].pc = "released", ![r].ep = "none", ![r].q = BaseQuery,
                          ![r].resp = [NoResp EXCEPT !.status = req[r].resp.status]]
    /\ UNCHANGED store

\* get_db after its yield: finally db.close(), whatever the handler did.
Release(r) ==
    /\ req[r].pc = "responded"
    /\ req[r].sid # 0
    /\ sessions' = [sessions EXCEPT ![req[r].sid] = "closed"]
    /\ req' = [req EXCEPT ![r].pc = "released", ![r].ep = "none", ![r].q = BaseQuery,
                          ![r].resp = [NoResp EXCEPT !.status = req[r].resp.status]]
    /\ UNCHANGED store

\* The response is out and the request's objects are dropped.
Finish(r) ==
    /\ \/ req[r].pc = "released"
       \/ req[r].pc = "responded" /\ req[r].sid = 0
    /\ req' = [req EXCEPT ![r] = IdleReq]
    /\ sessions' = [s \in SessionIds |->
                      IF s = req[r].sid /\ sessions[s] = "closed"
                      THEN "free" ELSE sessions[s]]
    /\ UNCHANGED store

\* The requests a client sends: all within the bounds, or one per outcome.
QuerySet(wide, ep) == IF wide THEN Queries(ep) ELSE FewQueries(ep)

Step(r, wide) ==
    \/ \E ep \in Endpoints : Arrive(r, ep)
    \/ Acquire(r)
    \/ Root(r)
    \/ ValidationError(r, QuerySet(wide, req[r].ep))
    \/ ReadPlayers(r, QuerySet(wide, "players"))
    \/ ReadPlayer(r, QuerySet(wide, "player"))
    \/ ReadPerformances(r, QuerySet(wide, "performances"))
    \/ ReadLeague(r, QuerySet(wide, "league"))
    \/ ReadLeagues(r, QuerySet(wide, "leagues"))
    \/ ReadTeams(r, QuerySet(wide, "teams"))
    \/ GetCount(r, QuerySet(wide, "counts"))
    \/ Release(r)
    \/ Finish(r)

StartWith(db) ==
    /\ store = db
    /\ req = [r \in Requests |-> IdleReq]
    /\ sessions = [s \in SessionIds |-> "free"]

(***************************************************************************)
(* Spec: one client sending one request after another, every request and   *)
(* every store within the bounds, and one store with more players than the *)
(* default limit.                                                          *)
(***************************************************************************)
Init ==
    \/ \E np \in 0..MaxRows, nl \in 0..MaxRows, ds \in [Parity -> Dates] :
          StartWith(StoreOf(np, nl, ds))
    \/ StartWith(BigStore)

Next == Step(1, TRUE)

Spec == Init /\ [][Next]_vars

(***************************************************************************)
(* ConcSpec: the requests of NReq clients interleaved step by step.        *)
(* FairConcSpec: the same with every started request run to its end, as    *)
(* the host runtime does.                                                  *)
(***************************************************************************)
ConcInit == StartWith(StoreOf(1, 1, [p \in Parity |-> 1]))

ConcNext == \E r \in Requests : Step(r, FALSE)

ConcSpec == ConcInit /\ [][ConcNext]_vars

Progress(r) == Step(r, FALSE) /\ req[r].pc # "idle"

FairConcSpec == ConcSpec /\ \A r \in Requests : WF_vars(Progress(r))

(***************************************************************************)
(* Vocabulary of the claims.                                               *)
(***************************************************************************)
Responded(r) == req[r].pc = "responded"

\* A listing request that passed validation and whose handler has answered.
Listed(r) ==
    /\ Responded(r)
    /\ req[r].ep \in ListingEndpoints
    /\ Valid(req[r].ep, req[r].q)

\* A lookup request that passed validation and whose handler has answered.
LookedUp(r) ==
    /\ Responded(r)
    /\ req[r].ep \in LookupEndpoints
    /\ Valid(req[r].ep, req[r].q)

SkipOf(q) == IF q.skip.given THEN q.skip.val ELSE 0
LimitOf(q) == IF q.limit.given THEN q.limit.val ELSE 100

Wanted(raw, value) == raw.given => value = raw.val

\* The filters each listing endpoint declares, other than the date.
OtherFiltersMatch(ep, row, q) ==
    CASE ep = "players" -> /\ Wanted(q.first_name, row.first_name)
                           /\ Wanted(q.last_name, row.last_name)
      [] ep = "leagues" -> Wanted(q.league_name, row.league_name)
      [] ep = "teams" -> /\ Wanted(q.team_name, row.team_name)
                         /\ Wanted(q.league_id, row.league_id)
      [] OTHER -> TRUE

RowMatches(ep, row, q) ==
    /\ OtherFiltersMatch(ep, row, q)
    /\ q.minimum_last_changed_date.given =>
          row.last_changed_date >= q.minimum_last_changed_date.val

\* The unpaginated matching result: the matching rows of the table, in order.
Matching(ep, q) == SelectSeq(store[ep], LAMBDA row : RowMatches(ep, row, q))

Rows(seq) == {seq[i] : i \in 1..Len(seq)}

Listing(ep, db, q) ==
    CASE ep = "players" -> v0_get_players(db, q)
      [] ep = "performances" -> v0_get_performances(db, q)
      [] ep = "leagues" -> v0_get_leagues(db, q)
      [] ep = "teams" -> v0_get_teams(db, q)

\* The page a client gets at offset k * limit, with the filters of q.
PageAt(ep, q, k) ==
    Listing(ep, store, [q EXCEPT !.skip = Given(k * LimitOf(q))]).body

RECURSIVE PagesFrom(_, _, _, _)
PagesFrom(ep, q, k, last) ==
    IF k > last THEN <<>>
    ELSE PageAt(ep, q, k) \o PagesFrom(ep, q, k + 1, last)

\* C1: for every listing endpoint, store and valid skip/limit, the list
\* returned has at most limit rows, and the pages at offsets 0, limit,
\* 2*limit, ... concatenated are the unpaginated matching result: every
\* matching row once, in order, none missing; the page returned at a multiple
\* of limit is that page of the concatenation.
C1_PagesPartitionResult ==
    \A r \in Requests :
        (Listed(r) /\ SkipOf(req[r].q) >= 0 /\ LimitOf(req[r].q) >= 1) =>
            LET ep == req[r].ep
                q == req[r].q
                last == Len(store[ep]) \div LimitOf(q)
            IN  /\ req[r].resp.status = 200
                /\ Len(req[r].resp.body) <= LimitOf(q)
                /\ \A k \in 0..last : Len(PageAt(ep, q, k)) <= LimitOf(q)
                /\ PagesFrom(ep, q, 0, last) = Matching(ep, q)
                /\ SkipOf(q) % LimitOf(q) = 0 =>
                      req[r].resp.body = PageAt(ep, q, SkipOf(q) \div LimitOf(q))

\* With 101 players and the default limit of 100, the page at skip = 100 is
\* the one remaining player.
C1_Witness ==
    \E r \in Requests :
        /\ Listed(r)
        /\ req[r].ep = "players"
        /\ req[r].q.skip = Given(100)
        /\ ~req[r].q.limit.given
        /\ Len(PageAt("players", req[r].q, 0)) = 100
        /\ Len(Matching("players", req[r].q)) = 101
        /\ req[r].resp.body = <<store.players[101]>>

IdOf(ep, row) == IF ep = "player" THEN row.player_id ELSE row.league_id
TableOf(ep) == IF ep = "player" THEN store.players ELSE store.leagues

\* C2: a lookup of an identifier that has no row ends in 404 with a
\* descriptive detail and no entity, never in a success with an empty or null
\* entity; a lookup of an identifier that has a row returns exactly that row
\* with status 200.
C2_LookupFoundOrNotFound ==
    \A r \in Requests :
        LookedUp(r) =>
            LET rows == TableOf(req[r].ep)
                hits == {i \in 1..Len(rows) :
                            IdOf(req[r].ep, rows[i]) = req[r].q.path_id.val}
                resp == req[r].resp
            IN  IF hits = {}
                THEN /\ resp.status = 404
                     /\ resp.kind = "detail"
                     /\ resp.detail # ""
                     /\ resp.body = <<>>
                ELSE /\ resp.status = 200
                     /\ resp.kind = "entity"
                     /\ \E i \in hits : resp.body = <<rows[i]>>

\* A player lookup that missed although the table has rows.
C2_Witness ==
    \E r \in Requests :
        /\ LookedUp(r)
        /\ req[r].ep = "player"
        /\ Len(store.players) >= 1
        /\ req[r].resp.status = 404

\* C4: a listing with minimum_last_changed_date = D returns only rows changed
\* on or after D, a row changed exactly on D included; without the parameter
\* there is no lower bound: when pagination cuts nothing off, the rows
\* returned are exactly those the other filters and the date bound admit.
C4_MinimumLastChangedDate ==
    \A r \in Requests :
        Listed(r) =>
            LET ep == req[r].ep
                q == req[r].q
                body == req[r].resp.body
            IN  /\ q.minimum_last_changed_date.given =>
                      \A row \in Rows(body) :
                          row.last_changed_date >= q.minimum_last_changed_date.val
                /\ (SkipOf(q) = 0 /\ LimitOf(q) >= Len(store[ep])) =>
                      Rows(body) =
                          {row \in Rows(store[ep]) :
                              /\ OtherFiltersMatch(ep, row, q)
                              /\ \/ ~q.minimum_last_changed_date.given
                                 \/ row.last_changed_date >=
                                        q.minimum_last_changed_date.val}

\* A row changed exactly on D is returned while an older row is left out.
C4_Witness ==
    \E r \in Requests :
        /\ Listed(r)
        /\ req[r].q.minimum_last_changed_date.given
        /\ \E row \in Rows(req[r].resp.body) :
              row.last_changed_date = req[r].q.minimum_last_changed_date.val
        /\ \E row \in Rows(store[req[r].ep]) :
              /\ row.last_changed_date < req[r].q.minimum_last_changed_date.val
              /\ OtherFiltersMatch(req[r].ep, row, req[r].q)

\* C5: the counts are the numbers of rows of the full leagues, teams and
\* players tables, whatever the store holds.
C5_CountsAreTableSizes ==
    \A r \in Requests :
        (Responded(r) /\ req[r].ep = "counts") =>
            /\ req[r].resp.status = 200
            /\ req[r].resp.kind = "counts"
            /\ Len(req[r].resp.body) = 1
            /\ req[r].resp.body[1].league_count =
                  Cardinality({row.league_id : row \in Rows(store.leagues)})
            /\ req[r].resp.body[1].team_count =
                  Cardinality({row.team_id : row \in Rows(store.teams)})
            /\ req[r].resp.body[1].player_count =
                  Cardinality({row.player_id : row \in Rows(store.players)})

\* Counts of a store with more players than the default limit, and with
\* leagues and teams tables of different sizes.
C5_Witness ==
    \E r \in Requests :
        /\ Responded(r)
        /\ req[r].ep = "counts"
        /\ req[r].resp.body[1].league_count >= 1
        /\ req[r].resp.body[1].team_count > req[r].resp.body[1].league_count
        /\ req[r].resp.body[1].player_count > 100

PagedCalls == {"get_players", "get_performance", "get_leagues", "get_teams"}

\* C6: every listing call that reaches the data-access layer carries
\* skip >= 0 and limit >= 1; a request with skip < 0 or limit <= 0 is not
\* passed through.
C6_PaginationValidated ==
    \A r \in Requests :
        (Responded(r) /\ req[r].resp.crud_call.fn \in PagedCalls) =>
            /\ req[r].resp.crud_call.skip >= 0
            /\ req[r].resp.crud_call.limit >= 1

\* C7: GET /v0/performances?player_id=P returns only performances whose
\* player reference is P.
C7_PerformancesByPlayer ==
    \A r \in Requests :
        (Listed(r) /\ req[r].ep = "performances" /\ req[r].q.player_id.given) =>
            \A row \in Rows(req[r].resp.body) :
                row.player_id = req[r].q.player_id.val

\* C8: a listing never ends in an error because of its result set: with no
\* matching row, or with skip at or beyond the number of matching rows, it
\* answers 200 with the empty sequence; 404 comes only from the two lookups.
C8_ListingNeverNotFound ==
    \A r \in Requests :
        /\ Listed(r) =>
              /\ req[r].resp.status = 200
              /\ req[r].resp.kind = "list"
              /\ SkipOf(req[r].q) >= Len(Matching(req[r].ep, req[r].q)) =>
                    req[r].resp.body = <<>>
        /\ (Responded(r) /\ req[r].resp.status = 404) =>
              req[r].ep \in LookupEndpoints

\* A teams listing that skipped past every row of a table that has rows.
C8_Witness ==
    \E r \in Requests :
        /\ Listed(r)
        /\ req[r].ep = "teams"
        /\ Len(Matching("teams", req[r].q)) >= 1
        /\ SkipOf(req[r].q) >= Len(Matching("teams", req[r].q))
        /\ req[r].resp.status = 200
        /\ req[r].resp.body = <<>>

InFlight(r) == req[r].sid # 0 /\ req[r].pc \in {"acquired", "responded"}

\* C3: every request that acquired a session releases it on every exit path
\* (success, not-found, validation failure): the session is eventually
\* closed, and a session is open only while the request it was opened for is
\* in flight, so that once every request has completed no session is open.
C3_SessionAlwaysReleased ==
    /\ \A r \in Requests :
          InFlight(r) ~> (req[r].pc = "released" /\ sessions[req[r].sid] = "closed")
    /\ [](\A s \in SessionIds :
              sessions[s] = "open" =>
                  \E r \in Requests : InFlight(r) /\ req[r].sid = s)

\* A request that failed validation and one that ended in 404, both with
\* their sessions closed.
C3_Witness ==
    \E r1 \in Requests, r2 \in Requests :
        /\ req[r1].pc = "released" /\ req[r1].resp.status = 422
        /\ req[r2].pc = "released" /\ req[r2].resp.status = 404
        /\ sessions[req[r1].sid] = "closed"
        /\ sessions[req[r2].sid] = "closed"
        /\ req[r1].sid # req[r2].sid

\* C9: no operation writes to the store: across every step of every
\* interleaving of requests, 404s included, the four tables stay as they were.
C9_StoreNeverWritten == [][store' = store]_vars

\* A lookup has ended in 404 while another request's answer is in hand.
C9_Witness ==
    \E r1 \in Requests, r2 \in Requests :
        /\ req[r1].pc = "released" /\ req[r1].resp.status = 404
        /\ Responded(r2) /\ req[r2].resp.status = 200
        /\ Len(store.players) >= 1

\* C10: sessions are per request: no two requests in flight hold the same
\* session, a request in flight holds a session that is still open, and no
\* handler has read through a session that was already closed.
C10_SessionPerRequest ==
    /\ \A r1 \in Requests, r2 \in Requests :
          (r1 # r2 /\ req[r1].sid # 0 /\ req[r2].sid # 0) =>
              req[r1].sid # req[r2].sid
    /\ \A r \in Requests : InFlight(r) => sessions[req[r].sid] = "open"
    /\ \A r \in Requests : req[r].read_open

\* Two requests in flight at once, one answered and one about to read.
C10_Witness ==
    \E r1 \in Requests, r2 \in Requests :
        /\ req[r1].pc = "responded" /\ req[r1].sid # 0
        /\ req[r2].pc = "acquired"
        /\ sessions[req[r1].sid] = "open"
        /\ sessions[req[r2].sid] = "open"

====
